---------------------------- MODULE Spec2Model ----------------------------
(***************************************************************************)
(* A model of remove-silent-scene (src/index.js): the silencedetect        *)
(* parser, the planner of the intervals to keep, the padding pass, the     *)
(* single-file pipeline and the directory loop.                            *)
(*                                                                         *)
(* Time is measured in tenths of a second: 1 s is 10, 0.4 s is 4.          *)
(* A path or a line of text is a sequence of one-character (or opaque)     *)
(* strings, so that the quote character can be told from the others.       *)
(***************************************************************************)
EXTENDS Integers, Sequences, FiniteSets, TLC

(***************************************************************************)
(* Program constants (src/index.js:10-12), in tenths of a second.          *)
(***************************************************************************)
minimumNotSilentDuration == 10
remainingSilentDuration == 4
minimumSilentDuration == 2

\* src/index.js:76, the d= argument handed to silencedetect
thresholdDuration == minimumSilentDuration + remainingSilentDuration

(***************************************************************************)
(* Bounds of the model.                                                    *)
(***************************************************************************)
\* longest video, in tenths of a second
MaxDuration == 36
\* the planner's and the pipeline's inputs lie on multiples of TimeGrid tenths
TimeGrid == 2
\* most silences handed to the planner
MaxSilences == 3
\* most lines of a silencedetect output handed to the parser alone
MaxLines == 4
\* largest integer part of a position written in such a line
MaxWhole == 1
\* most lines of the silencedetect output within the single-file pipeline
MaxFileLines == 2
\* longest output path, in characters
MaxPathLen == 2
\* most entries of a directory
MaxEntries == 3
\* most runs over the same directory
MaxRuns == 2

Times == {t \in 0..MaxDuration : t % TimeGrid = 0}
Durations == Times \ {0}

(***************************************************************************)
(* Text of the silencedetect pass.  A line is either a line the regular    *)
(* expression of line 163 matches, with the captured type and the captured *)
(* decimal string, or any other line (a silence_duration line, a marker    *)
(* whose number carries a sign, ...).  A decimal string is \d+(\.\d+)?:    *)
(* an integer part and an optional fractional digit.                       *)
(***************************************************************************)
NoFrac == <<>>
PositionStrs == [whole : 0..MaxWhole, frac : {NoFrac, <<5>>}]
OtherLine == [type |-> "other", positionStr |-> [whole |-> 0, frac |-> NoFrac]]
MarkerLines == [type : {"start", "end"}, positionStr : PositionStrs]
Lines == MarkerLines \cup {OtherLine}

\* every sequence over S of length at most n
SeqsUpTo(S, n) == UNION {[1..k -> S] : k \in 0..n}

\* parseFloat on a string the regular expression captured (src/index.js:172)
parseFloat(positionStr) ==
    positionStr.whole * 10
        + (IF positionStr.frac = NoFrac THEN 0 ELSE positionStr.frac[1])

\* what ffmpeg prints for a time: the shortest decimal ("1.2", "3")
formatPosition(t) ==
    [whole |-> t \div 10, frac |-> IF t % 10 = 0 THEN NoFrac ELSE <<t % 10>>]

\* output.matchAll(...): the matching lines, in order (src/index.js:163)
IsMarker(line) == line.type \in {"start", "end"}
matchAll(output) == SelectSeq(output, IsMarker)

(***************************************************************************)
(* getSilentPeriodListFromSilenceDetectOutput (src/index.js:162-189).      *)
(* startPosition is <<>> for null and <<p>> for the number p.  The result  *)
(* is [error, periodList]; error # "none" stands for the throw, which      *)
(* returns nothing.                                                        *)
(***************************************************************************)
Null == <<>>

RECURSIVE ParseLoop(_, _, _, _)
ParseLoop(matched, i, startPosition, periodList) ==
    IF i > Len(matched)
    THEN [error |-> "none", periodList |-> periodList]
    ELSE LET type == matched[i].type
             position == parseFloat(matched[i].positionStr)
         IN  IF startPosition = Null
             THEN IF type # "start"
                  THEN [error |-> "Unexpected period end", periodList |-> <<>>]
                  ELSE ParseLoop(matched, i + 1, <<position>>, periodList)
             ELSE IF type # "end"
                  THEN [error |-> "Unexpected period start", periodList |-> <<>>]
                  ELSE ParseLoop(matched, i + 1, Null,
                                 Append(periodList, <<startPosition[1], position>>))

\* mutant: `if (!startPosition)` instead of `=== null`, so that a start at 0 is lost
RECURSIVE ParseLoopFalsy(_, _, _, _)
ParseLoopFalsy(matched, i, startPosition, periodList) ==
    IF i > Len(matched)
    THEN [error |-> "none", periodList |-> periodList]
    ELSE LET type == matched[i].type
             position == parseFloat(matched[i].positionStr)
         IN  IF startPosition = Null \/ startPosition = <<0>>
             THEN IF type # "start"
                  THEN [error |-> "Unexpected period end", periodList |-> <<>>]
                  ELSE ParseLoopFalsy(matched, i + 1, <<position>>, periodList)
             ELSE IF type # "end"
                  THEN [error |-> "Unexpected period start", periodList |-> <<>>]
                  ELSE ParseLoopFalsy(matched, i + 1, Null,
                                      Append(periodList, <<startPosition[1], position>>))

getSilentPeriodListFalsy(output) == ParseLoopFalsy(matchAll(output), 1, Null, <<>>)

\* mutant: a start that follows an unmatched start replaces it instead of throwing
RECURSIVE ParseLoopLenient(_, _, _, _)
ParseLoopLenient(matched, i, startPosition, periodList) ==
    IF i > Len(matched)
    THEN [error |-> "none", periodList |-> periodList]
    ELSE LET type == matched[i].type
             position == parseFloat(matched[i].positionStr)
         IN  IF type = "start"
             THEN ParseLoopLenient(matched, i + 1, <<position>>, periodList)
             ELSE IF startPosition = Null
                  THEN [error |-> "Unexpected period end", periodList |-> <<>>]
                  ELSE ParseLoopLenient(matched, i + 1, Null,
                                        Append(periodList, <<startPosition[1], position>>))

getSilentPeriodListLenient(output) == ParseLoopLenient(matchAll(output), 1, Null, <<>>)

getSilentPeriodListFromSilenceDetectOutput(output) ==
    ParseLoop(matchAll(output), 1, Null, <<>>)

(***************************************************************************)
(* The planner loop of removeSilentFromVideoFile (src/index.js:81-91).     *)
(***************************************************************************)
RECURSIVE NotSilentLoop(_, _, _, _)
NotSilentLoop(silent, i, lastEndPosition, acc) ==
    IF i > Len(silent)
    THEN [lastEndPosition |-> lastEndPosition, list |-> acc]
    ELSE LET startPosition == silent[i][1]
             endPosition == silent[i][2]
         IN  NotSilentLoop(silent, i + 1, endPosition,
                 IF startPosition - lastEndPosition > minimumNotSilentDuration
                 THEN Append(acc, <<lastEndPosition, startPosition>>)
                 ELSE acc)

\* mutant: `>=` instead of `>` in both comparisons
RECURSIVE NotSilentLoopGeq(_, _, _, _)
NotSilentLoopGeq(silent, i, lastEndPosition, acc) ==
    IF i > Len(silent)
    THEN [lastEndPosition |-> lastEndPosition, list |-> acc]
    ELSE LET startPosition == silent[i][1]
             endPosition == silent[i][2]
         IN  NotSilentLoopGeq(silent, i + 1, endPosition,
                 IF startPosition - lastEndPosition >= minimumNotSilentDuration
                 THEN Append(acc, <<lastEndPosition, startPosition>>)
                 ELSE acc)

buildNotSilentPeriodListGeq(silent, videoDuration) ==
    LET r == NotSilentLoopGeq(silent, 1, 0, <<>>)
    IN  IF videoDuration - r.lastEndPosition >= minimumNotSilentDuration
        THEN Append(r.list, <<r.lastEndPosition, videoDuration>>)
        ELSE r.list

buildNotSilentPeriodList(silent, videoDuration) ==
    LET r == NotSilentLoop(silent, 1, 0, <<>>)
    IN  IF videoDuration - r.lastEndPosition > minimumNotSilentDuration
        THEN Append(r.list, <<r.lastEndPosition, videoDuration>>)
        ELSE r.list

(***************************************************************************)
(* adjustNotSilentPeriodList (src/index.js:191-203).                       *)
(***************************************************************************)
\* mutant: the whole remainingSilentDuration is added on each side
adjustFullPadding(periodList) ==
    [i \in 1..Len(periodList) |->
        << IF i = 1 THEN periodList[i][1]
                    ELSE periodList[i][1] - remainingSilentDuration,
           IF i = Len(periodList) THEN periodList[i][2]
                                  ELSE periodList[i][2] + remainingSilentDuration >>]

\* mutant: `i === periodList.length` at line 198, so the last end is padded too
adjustLastPadded(periodList) ==
    [i \in 1..Len(periodList) |->
        << IF i = 1 THEN periodList[i][1]
                    ELSE periodList[i][1] - (remainingSilentDuration \div 2),
           periodList[i][2] + (remainingSilentDuration \div 2) >>]

\* mutant: the first start and the last end are padded like the others
adjustEveryBoundary(periodList) ==
    [i \in 1..Len(periodList) |->
        << periodList[i][1] - (remainingSilentDuration \div 2),
           periodList[i][2] + (remainingSilentDuration \div 2) >>]

adjustNotSilentPeriodList(periodList) ==
    [i \in 1..Len(periodList) |->
        << IF i = 1 THEN periodList[i][1]
                    ELSE periodList[i][1] - (remainingSilentDuration \div 2),
           IF i = Len(periodList) THEN periodList[i][2]
                                  ELSE periodList[i][2] + (remainingSilentDuration \div 2) >>]

(***************************************************************************)
(* State.                                                                  *)
(***************************************************************************)
VARIABLES
    pc,                       \* where the run is: the await it is suspended at
    videoDuration,            \* parseFloat of the probed duration (line 70)
    silenceDetectOutput,      \* stderr of the silencedetect pass (line 78)
    parseError,               \* what the parser threw, "none" if nothing
    silentPeriodList,         \* line 79
    notSilentPeriodList,      \* lines 81-91, before the padding pass
    adjustedList,             \* notSilentPeriodList after line 93
    outputVideoPath,          \* line 59 / 64
    chunkedVideoFilePathList, \* line 98
    concatFileContent,        \* line 106, a sequence of lines
    invocations,              \* the external commands and file operations issued
    tmpDirExists,             \* chunkedVideoDirname is on disk
    outputWritten,            \* a file is on disk at outputVideoPath
    fileError,                \* the error removeSilentFromVideoFile rejected with
    videoFilenameList,        \* line 33: per entry, whether the input probes as media
    entryIndex,               \* the entry the for loop of line 36 is at
    outputState,              \* per entry, the file at the mirrored output path
    tmpLeft,                  \* per entry, whether its temp directory is on disk
    dirLog,                   \* per run, what the directory loop did
    run,                      \* which run over the directory this is
    allProducedBefore,        \* when this run began, every output was one an
                              \* earlier run had completed
    pendingError              \* the error caught at line 47

planVars == <<videoDuration, silenceDetectOutput, parseError, silentPeriodList,
              notSilentPeriodList, adjustedList>>
renderVars == <<outputVideoPath, chunkedVideoFilePathList, concatFileContent,
                invocations, tmpDirExists, outputWritten, fileError>>
dirVars == <<videoFilenameList, entryIndex, outputState, tmpLeft, dirLog, run,
             allProducedBefore, pendingError>>
vars == <<pc, planVars, renderVars, dirVars>>

PlanIdle ==
    /\ videoDuration = 0
    /\ silenceDetectOutput = <<>>
    /\ parseError = "none"
    /\ silentPeriodList = <<>>
    /\ notSilentPeriodList = <<>>
    /\ adjustedList = <<>>

RenderIdle ==
    /\ outputVideoPath = <<>>
    /\ chunkedVideoFilePathList = <<>>
    /\ concatFileContent = <<>>
    /\ invocations = <<>>
    /\ tmpDirExists = FALSE
    /\ outputWritten = FALSE
    /\ fileError = "none"

DirIdle ==
    /\ videoFilenameList = <<>>
    /\ entryIndex = 0
    /\ outputState = <<>>
    /\ tmpLeft = <<>>
    /\ dirLog = <<>>
    /\ run = 0
    /\ allProducedBefore = FALSE
    /\ pendingError = "none"

(***************************************************************************)
(* SpecParse: the parser alone, on every text of at most MaxLines lines.   *)
(***************************************************************************)
InitParse ==
    /\ pc = "parse"
    /\ silenceDetectOutput \in SeqsUpTo(Lines, MaxLines)
    /\ videoDuration = 0
    /\ parseError = "none"
    /\ silentPeriodList = <<>>
    /\ notSilentPeriodList = <<>>
    /\ adjustedList = <<>>
    /\ RenderIdle
    /\ DirIdle

\* line 79: the call returns the list or throws
ParseOutput ==
    /\ pc = "parse"
    /\ LET r == getSilentPeriodListFromSilenceDetectOutput(silenceDetectOutput)
       IN  /\ parseError' = r.error
           /\ silentPeriodList' = r.periodList
           /\ pc' = IF r.error = "none" THEN "parsed" ELSE "failed"
    /\ UNCHANGED <<videoDuration, silenceDetectOutput, notSilentPeriodList,
                   adjustedList, renderVars, dirVars>>

NextParse == ParseOutput

SpecParse == InitParse /\ [][NextParse]_vars

(***************************************************************************)
(* SpecPlan: the planner and the padding pass on every duration and every  *)
(* time-ordered, non-overlapping list of at most MaxSilences silences      *)
(* inside [0, videoDuration].                                              *)
(***************************************************************************)
InitPlan ==
    /\ pc = "silences"
    /\ videoDuration \in Durations
    /\ silenceDetectOutput = <<>>
    /\ parseError = "none"
    /\ silentPeriodList = <<>>
    /\ notSilentPeriodList = <<>>
    /\ adjustedList = <<>>
    /\ RenderIdle
    /\ DirIdle

LastSilenceEnd ==
    IF silentPeriodList = <<>> THEN 0
    ELSE silentPeriodList[Len(silentPeriodList)][2]

\* the detection reports one more silence, after the ones reported so far
ReportSilence(s, e) ==
    /\ pc = "silences"
    /\ Len(silentPeriodList) < MaxSilences
    /\ LastSilenceEnd <= s
    /\ s <= e
    /\ e <= videoDuration
    /\ silentPeriodList' = Append(silentPeriodList, <<s, e>>)
    /\ UNCHANGED <<pc, videoDuration, silenceDetectOutput, parseError,
                   notSilentPeriodList, adjustedList, renderVars, dirVars>>

\* lines 81-93
PlanKeepIntervals ==
    /\ pc = "silences"
    /\ notSilentPeriodList' = buildNotSilentPeriodList(silentPeriodList, videoDuration)
    /\ adjustedList' = adjustNotSilentPeriodList(notSilentPeriodList')
    /\ pc' = "planned"
    /\ UNCHANGED <<videoDuration, silenceDetectOutput, parseError, silentPeriodList,
                   renderVars, dirVars>>

NextPlan ==
    \/ \E s \in Times : \E e \in Times : ReportSilence(s, e)
    \/ PlanKeepIntervals

SpecPlan == InitPlan /\ [][NextPlan]_vars

(***************************************************************************)
(* Claims about the planner and the padding pass, under SpecPlan.          *)
(***************************************************************************)
Planned == pc = "planned"

halfPadding == remainingSilentDuration \div 2

\* consecutive intervals are in time order and do not overlap
OrderedDisjoint(list) ==
    \A i \in 1..(Len(list) - 1) :
        /\ list[i][1] <= list[i + 1][1]
        /\ list[i][2] <= list[i + 1][1]

\* every silence is at least as long as the duration silencedetect is run with
EverySilenceDetectable ==
    \A k \in 1..Len(silentPeriodList) :
        silentPeriodList[k][2] - silentPeriodList[k][1] >= thresholdDuration

\* C1 as stated: for every time-ordered, non-overlapping silence list inside
\* [0, D], the padded keep intervals are in time order and never overlap.
C1_AnySilenceList == Planned => OrderedDisjoint(adjustedList)

\* C1, amended: when every silence interval is at least thresholdDuration
\* (0.6 s, what silencedetect is asked to report) long, the padded keep
\* intervals are in non-decreasing time order and never overlap.
C1_PaddedOrderedDisjoint ==
    (Planned /\ EverySilenceDetectable) => OrderedDisjoint(adjustedList)

C1_Witness ==
    /\ Planned
    /\ EverySilenceDetectable
    /\ Len(silentPeriodList) = 2
    /\ Len(adjustedList) = 2
    /\ adjustedList[2][1] - adjustedList[1][2] = thresholdDuration - remainingSilentDuration

\* the gaps of the complement of the silences in [0, D]: before each silence,
\* from the previous silence's end (or 0), and the last one up to D
Gaps ==
    [i \in 1..(Len(silentPeriodList) + 1) |->
        << IF i = 1 THEN 0 ELSE silentPeriodList[i - 1][2],
           IF i = Len(silentPeriodList) + 1 THEN videoDuration
                                            ELSE silentPeriodList[i][1] >>]

NotShorterThanMinimum(gap) == gap[2] - gap[1] >= minimumNotSilentDuration
LongerThanMinimum(gap) == gap[2] - gap[1] > minimumNotSilentDuration

\* C2 as stated: the unpadded keep intervals are exactly the gaps that are
\* not shorter than minKeepDuration.
C2_GapsNotShorter ==
    Planned => notSilentPeriodList = SelectSeq(Gaps, NotShorterThanMinimum)

\* C2, amended: the unpadded keep intervals are exactly the gaps strictly
\* longer than minKeepDuration, in order; a gap of exactly minKeepDuration
\* is dropped like the shorter ones.
C2_GapsStrictlyLonger ==
    Planned => notSilentPeriodList = SelectSeq(Gaps, LongerThanMinimum)

C2_Witness ==
    /\ Planned
    /\ EverySilenceDetectable
    /\ Len(silentPeriodList) = 2
    /\ Len(notSilentPeriodList) = 1
    /\ \E i \in 1..Len(Gaps) : Gaps[i][2] - Gaps[i][1] = minimumNotSilentDuration

\* C3: every padded keep interval has both boundaries inside [0, D].
C3_PaddedWithinDuration ==
    Planned =>
        \A i \in 1..Len(adjustedList) :
            /\ 0 <= adjustedList[i][1]
            /\ adjustedList[i][2] <= videoDuration

C3_Witness ==
    /\ Planned
    /\ EverySilenceDetectable
    /\ Len(silentPeriodList) = 2
    /\ Len(adjustedList) = 2
    /\ adjustedList[1][1] = 0
    /\ adjustedList[2][2] = videoDuration
    /\ adjustedList[1][2] > notSilentPeriodList[1][2]
    /\ adjustedList[2][1] < notSilentPeriodList[2][1]

\* every boundary but the first start and the last end moves outward by
\* exactly half the padding, and those two stay where they were
PaddedExceptEnds ==
    /\ Len(adjustedList) = Len(notSilentPeriodList)
    /\ \A i \in 1..Len(notSilentPeriodList) :
        /\ (adjustedList[i][1] = notSilentPeriodList[i][1]) <=> (i = 1)
        /\ i # 1 => notSilentPeriodList[i][1] - adjustedList[i][1] = halfPadding
        /\ (adjustedList[i][2] = notSilentPeriodList[i][2])
               <=> (i = Len(notSilentPeriodList))
        /\ i # Len(notSilentPeriodList)
               => adjustedList[i][2] - notSilentPeriodList[i][2] = halfPadding

\* C4 as stated: ... and the two unpadded boundaries are the physical start
\* and end of the source: the first keep interval starts at 0 and the last
\* one ends at D.
C4_EndsArePhysical ==
    Planned =>
        /\ PaddedExceptEnds
        /\ notSilentPeriodList # <<>> =>
            /\ notSilentPeriodList[1][1] = 0
            /\ notSilentPeriodList[Len(notSilentPeriodList)][2] = videoDuration

\* C4, amended: every boundary is moved outward by exactly paddingDuration/2
\* except the start of the first keep interval and the end of the last one,
\* which are left unchanged; the first keep interval starts at 0 or at the
\* end of a silence, and the last one ends at D or at the start of a silence.
C4_EndsUnpadded ==
    Planned =>
        /\ PaddedExceptEnds
        /\ notSilentPeriodList # <<>> =>
            /\ \/ notSilentPeriodList[1][1] = 0
               \/ \E k \in 1..Len(silentPeriodList) :
                      notSilentPeriodList[1][1] = silentPeriodList[k][2]
            /\ \/ notSilentPeriodList[Len(notSilentPeriodList)][2] = videoDuration
               \/ \E k \in 1..Len(silentPeriodList) :
                      notSilentPeriodList[Len(notSilentPeriodList)][2]
                          = silentPeriodList[k][1]

C4_Witness ==
    /\ Planned
    /\ Len(adjustedList) = 2
    /\ notSilentPeriodList[1][1] > 0
    /\ notSilentPeriodList[2][2] < videoDuration
    /\ adjustedList[1][1] = notSilentPeriodList[1][1]
    /\ adjustedList[2][2] = notSilentPeriodList[2][2]

(***************************************************************************)
(* Claims about the parser, under SpecParse.                               *)
(***************************************************************************)
markers == matchAll(silenceDetectOutput)

\* some marker is not where strict alternation, beginning with a start,
\* puts it: an end at an odd place or a start at an even place
BreaksAlternation ==
    \E i \in 1..Len(markers) :
        \/ i % 2 = 1 /\ markers[i].type = "end"
        \/ i % 2 = 0 /\ markers[i].type = "start"

\* C5: the parser fails, and returns no list, exactly when the markers
\* break strict alternation.
C5_FailsIffNotAlternating ==
    pc # "parse" =>
        /\ (pc = "failed") <=> BreaksAlternation
        /\ (parseError # "none") <=> BreaksAlternation
        /\ pc = "failed" => silentPeriodList = <<>>

C5_Witness ==
    /\ pc = "failed"
    /\ parseError = "Unexpected period start"
    /\ Len(markers) = 4
    /\ markers[1].type = "start" /\ markers[2].type = "end"
    /\ markers[3].type = "start" /\ markers[4].type = "start"

\* the (start, end) pairs of the markers, in order; a trailing start is left out
Pairs ==
    [k \in 1..(Len(markers) \div 2) |->
        << parseFloat(markers[2 * k - 1].positionStr),
           parseFloat(markers[2 * k].positionStr) >>]

\* C6: on a strictly alternating marker sequence the parser returns exactly
\* the (start, end) pairs in their order, dropping a trailing unmatched
\* start without an error.
C6_ReturnsPairsInOrder ==
    (pc # "parse" /\ ~BreaksAlternation) =>
        /\ pc = "parsed"
        /\ parseError = "none"
        /\ silentPeriodList = Pairs

C6_Witness ==
    /\ pc = "parsed"
    /\ Len(markers) = 3
    /\ Len(silenceDetectOutput) = 4
    /\ markers[1].positionStr = [whole |-> 0, frac |-> NoFrac]
    /\ Len(silentPeriodList) = 1

(***************************************************************************)
(* removeSilentFromVideoFile (src/index.js:59-116).  An action is the code *)
(* that runs when an awaited call settles, up to the next await;           *)
(* invocations lists the external commands and file operations in the      *)
(* order they are issued.                                                  *)
(***************************************************************************)
Quote == "'"
PathChars == {"a", Quote}
Paths == SeqsUpTo(PathChars, MaxPathLen) \ {<<>>}

\* line 67
chunkedVideoDirname(outputPath) == outputPath \o <<".tmp">>

\* line 100; the output paths drawn here have no extension
chunkedVideoFilePath(outputPath, period) ==
    chunkedVideoDirname(outputPath)
        \o <<"/", ToString(period[1]), "-", ToString(period[2])>>

\* line 108: String.prototype.replace with a regular expression that has no
\* g flag replaces the first match only
FirstQuote(filePath) ==
    CHOOSE i \in 1..Len(filePath) :
        /\ filePath[i] = Quote
        /\ \A j \in 1..(i - 1) : filePath[j] # Quote

replaceQuote(filePath) ==
    IF \A i \in 1..Len(filePath) : filePath[i] # Quote
    THEN filePath
    ELSE SubSeq(filePath, 1, FirstQuote(filePath) - 1)
             \o <<Quote, "\\", Quote, Quote>>
             \o SubSeq(filePath, FirstQuote(filePath) + 1, Len(filePath))

\* lines 106-109, one line of the listing per chunk path
buildConcatFileContent(filePathList) ==
    [i \in 1..Len(filePathList) |->
        <<"file ", Quote>> \o replaceQuote(filePathList[i]) \o <<Quote>>]

\* mutant: line 95 tests `>= 0`, so the rendering starts on an empty list too
hasKeepIntervalsAlways(list) == Len(list) >= 0

\* line 95
hasKeepIntervals(list) == Len(list) > 0

Invocation(op, target) == [op |-> op, target |-> target]

\* the silencedetect pass reports markers at ascending times inside the video
AscendingWithin(output, duration) ==
    /\ \A i \in 1..Len(output) :
           IsMarker(output[i]) => parseFloat(output[i].positionStr) <= duration
    /\ \A i \in 1..Len(output) : \A j \in (i + 1)..Len(output) :
           (IsMarker(output[i]) /\ IsMarker(output[j]))
               => parseFloat(output[i].positionStr) <= parseFloat(output[j].positionStr)

SilenceDetectOutputs(duration) ==
    LET lines == [type : {"start", "end"},
                  positionStr : {formatPosition(t) : t \in {u \in Times : u <= duration}}]
                     \cup {OtherLine}
    IN  {output \in SeqsUpTo(lines, MaxFileLines) : AscendingWithin(output, duration)}

\* lines 59-69: the paths are set and the duration probe is issued
InitFile ==
    /\ pc = "probe"
    /\ PlanIdle
    /\ outputVideoPath \in Paths
    /\ chunkedVideoFilePathList = <<>>
    /\ concatFileContent = <<>>
    /\ invocations = <<Invocation("ffprobe", <<>>)>>
    /\ tmpDirExists = FALSE
    /\ outputWritten = FALSE
    /\ fileError = "none"
    /\ DirIdle

\* lines 70-72
ProbeDone(duration) ==
    /\ pc = "probe"
    /\ videoDuration' = duration
    /\ invocations' = Append(invocations, Invocation("volumedetect", <<>>))
    /\ pc' = "volumedetect"
    /\ UNCHANGED <<silenceDetectOutput, parseError, silentPeriodList,
                   notSilentPeriodList, adjustedList, outputVideoPath,
                   chunkedVideoFilePathList, concatFileContent, tmpDirExists,
                   outputWritten, fileError, dirVars>>

\* lines 73-78; getMinValumeFromVolumeDetectOutput (lines 154-160) throws when
\* the output has no mean_volume line
VolumeDetectDone(hasMeanVolume) ==
    /\ pc = "volumedetect"
    /\ IF hasMeanVolume
       THEN /\ invocations' = Append(invocations, Invocation("silencedetect", <<>>))
            /\ pc' = "silencedetect"
            /\ UNCHANGED fileError
       ELSE /\ fileError' = "Volume Detect Output Error"
            /\ pc' = "failed"
            /\ UNCHANGED invocations
    /\ UNCHANGED <<planVars, outputVideoPath, chunkedVideoFilePathList,
                   concatFileContent, tmpDirExists, outputWritten, dirVars>>

\* lines 79-96
SilenceDetectDone(output) ==
    /\ pc = "silencedetect"
    /\ silenceDetectOutput' = output
    /\ LET r == getSilentPeriodListFromSilenceDetectOutput(output)
           kept == buildNotSilentPeriodList(r.periodList, videoDuration)
           adjusted == adjustNotSilentPeriodList(kept)
       IN  IF r.error # "none"
           THEN /\ parseError' = r.error
                /\ fileError' = r.error
                /\ pc' = "failed"
                /\ UNCHANGED <<silentPeriodList, notSilentPeriodList,
                               adjustedList, invocations>>
           ELSE /\ silentPeriodList' = r.periodList
                /\ notSilentPeriodList' = kept
                /\ adjustedList' = adjusted
                /\ UNCHANGED <<parseError, fileError>>
                /\ IF hasKeepIntervals(adjusted)
                   THEN /\ invocations' = Append(invocations,
                               Invocation("mkdirp", chunkedVideoDirname(outputVideoPath)))
                        /\ pc' = "mkdirp"
                   ELSE /\ pc' = "done"
                        /\ UNCHANGED invocations
    /\ UNCHANGED <<videoDuration, outputVideoPath, chunkedVideoFilePathList,
                   concatFileContent, tmpDirExists, outputWritten, dirVars>>

\* lines 105-110, reached when the loop of line 99 has no interval left
IssueOutputFile(filePathList) ==
    /\ concatFileContent' = buildConcatFileContent(filePathList)
    /\ invocations' = Append(invocations,
           Invocation("outputFile", chunkedVideoDirname(outputVideoPath) \o <<"/", "filelist.txt">>))
    /\ pc' = "outputFile"

\* lines 100-101
IssueExtract(k) ==
    /\ invocations' = Append(invocations,
           Invocation("extract", chunkedVideoFilePath(outputVideoPath, adjustedList[k])))
    /\ pc' = "extract"
    /\ UNCHANGED concatFileContent

\* lines 96-101
MkdirpDone ==
    /\ pc = "mkdirp"
    /\ tmpDirExists' = TRUE
    /\ IF adjustedList = <<>>
       THEN IssueOutputFile(<<>>)
       ELSE IssueExtract(1)
    /\ UNCHANGED <<planVars, outputVideoPath, chunkedVideoFilePathList,
                   outputWritten, fileError, dirVars>>

\* lines 101-110
ExtractDone ==
    /\ pc = "extract"
    /\ LET k == Len(chunkedVideoFilePathList) + 1
           list == Append(chunkedVideoFilePathList,
                          chunkedVideoFilePath(outputVideoPath, adjustedList[k]))
       IN  /\ chunkedVideoFilePathList' = list
           /\ IF k < Len(adjustedList)
              THEN IssueExtract(k + 1)
              ELSE IssueOutputFile(list)
    /\ UNCHANGED <<planVars, outputVideoPath, tmpDirExists, outputWritten,
                   fileError, dirVars>>

\* lines 110-112
OutputFileDone ==
    /\ pc = "outputFile"
    /\ invocations' = Append(invocations, Invocation("concat", outputVideoPath))
    /\ pc' = "concat"
    /\ UNCHANGED <<planVars, outputVideoPath, chunkedVideoFilePathList,
                   concatFileContent, tmpDirExists, outputWritten, fileError, dirVars>>

\* lines 112-114
ConcatDone ==
    /\ pc = "concat"
    /\ outputWritten' = TRUE
    /\ invocations' = Append(invocations,
           Invocation("remove", chunkedVideoDirname(outputVideoPath)))
    /\ pc' = "remove"
    /\ UNCHANGED <<planVars, outputVideoPath, chunkedVideoFilePathList,
                   concatFileContent, tmpDirExists, fileError, dirVars>>

\* lines 114-116
RemoveDone ==
    /\ pc = "remove"
    /\ tmpDirExists' = FALSE
    /\ pc' = "done"
    /\ UNCHANGED <<planVars, outputVideoPath, chunkedVideoFilePathList,
                   concatFileContent, invocations, outputWritten, fileError, dirVars>>

\* execFfmpeg / execFfprobe reject (lines 131-132, 144-145) or a file
\* operation fails: the awaiting function rejects with that error.  A failed
\* concatenation may leave a part of the output behind.
Awaiting ==
    {"probe", "volumedetect", "silencedetect", "mkdirp", "extract",
     "outputFile", "concat", "remove"}

AwaitedCallFails(error, leavesOutput) ==
    /\ pc \in Awaiting
    /\ fileError' = error
    /\ outputWritten' = (outputWritten \/ (pc = "concat" /\ leavesOutput))
    /\ pc' = "failed"
    /\ UNCHANGED <<planVars, outputVideoPath, chunkedVideoFilePathList,
                   concatFileContent, invocations, tmpDirExists, dirVars>>

ExecErrors == {"Too many packets buffered for output stream", "other"}

NextFile ==
    \/ \E duration \in Durations : ProbeDone(duration)
    \/ \E hasMeanVolume \in BOOLEAN : VolumeDetectDone(hasMeanVolume)
    \/ /\ pc = "silencedetect"
       /\ \E output \in SilenceDetectOutputs(videoDuration) : SilenceDetectDone(output)
    \/ MkdirpDone
    \/ ExtractDone
    \/ OutputFileDone
    \/ ConcatDone
    \/ RemoveDone
    \/ \E error \in ExecErrors : \E leavesOutput \in BOOLEAN :
           AwaitedCallFails(error, leavesOutput)

SpecFile == InitFile /\ [][NextFile]_vars

(***************************************************************************)
(* Claims about the single-file pipeline, under SpecFile.                  *)
(***************************************************************************)
AnalysisOps == {"ffprobe", "volumedetect", "silencedetect"}

\* the planner has run: the run is past the silencedetect pass and its parse
PlannerRan ==
    \/ pc \in {"mkdirp", "extract", "outputFile", "concat", "remove", "done"}
    \/ pc = "failed" /\ invocations[Len(invocations)].op \notin AnalysisOps

\* C7: when the planner yields no keep interval, the run completes without
\* error and without any effect after the analysis passes: no temp
\* directory, no extract, no concatenate, no output file.
C7_NoKeepIntervalsNoEffect ==
    (PlannerRan /\ notSilentPeriodList = <<>>) =>
        /\ pc = "done"
        /\ fileError = "none"
        /\ \A i \in 1..Len(invocations) : invocations[i].op \in AnalysisOps
        /\ ~tmpDirExists
        /\ ~outputWritten
        /\ chunkedVideoFilePathList = <<>>
        /\ concatFileContent = <<>>

C7_Witness ==
    /\ pc = "done"
    /\ notSilentPeriodList = <<>>
    /\ Len(silentPeriodList) = 1
    /\ silentPeriodList[1][1] = minimumNotSilentDuration
    /\ silentPeriodList[1][2] - silentPeriodList[1][1] >= thresholdDuration
    /\ videoDuration - silentPeriodList[1][2] = minimumNotSilentDuration
    /\ Len(invocations) = 3

\* every quote of the path replaced by '\''
RECURSIVE EscapeEveryQuote(_)
EscapeEveryQuote(filePath) ==
    IF filePath = <<>> THEN <<>>
    ELSE (IF Head(filePath) = Quote THEN <<Quote, "\\", Quote, Quote>>
                                    ELSE <<Head(filePath)>>)
             \o EscapeEveryQuote(Tail(filePath))

ListingWritten == pc \in {"outputFile", "concat", "remove", "done"}

\* C10: the listing has one line per chunk, in keep-interval order, of the
\* form file '<escaped-path>', in which every quote of the chunk path is
\* replaced by '\''.
C10_ListingEscapesEveryQuote ==
    ListingWritten =>
        /\ Len(concatFileContent) = Len(adjustedList)
        /\ \A i \in 1..Len(adjustedList) :
               concatFileContent[i] =
                   <<"file ", Quote>>
                       \o EscapeEveryQuote(
                              chunkedVideoFilePath(outputVideoPath, adjustedList[i]))
                       \o <<Quote>>

(***************************************************************************)
(* removeSilentFromVideoDirectory (src/index.js:27-57).  An entry of       *)
(* videoFilenameList is whether the input file probes as media.  The file  *)
(* at the mirrored output path is "absent", "foreign" (a media file this   *)
(* tool did not write), "partial" (what a failed concatenation left) or    *)
(* "written" (the output of a completed run of removeSilentFromVideoFile). *)
(* dirLog holds what the current run did, in order.                        *)
(***************************************************************************)
BufferingError == "Too many packets buffered for output stream"

\* isVideoFile (lines 118-126) on a path whose file is in the given state:
\* the results the probe can give
isVideoFile(fileState) ==
    CASE fileState = "absent" -> {FALSE}
      [] fileState = "partial" -> BOOLEAN
      [] OTHER -> {TRUE}

\* mutant: the test of line 39 negated
alreadyDoneNegated(probed) == ~probed

\* line 39
alreadyDone(probed) == probed

\* mutant: the catch of line 47 swallows every error
isIgnoredErrorAny(error) == TRUE

\* line 48
isIgnoredError(error) == error = BufferingError

Entries == 1..Len(videoFilenameList)

Event(event, entry, probed, error, files) ==
    [event |-> event, entry |-> entry, probed |-> probed, error |-> error,
     files |-> files]

FilesOf(i) == <<outputState[i], tmpLeft[i]>>

\* lines 27-38: the directory is read and the first output path is probed
InitDir ==
    /\ pc = "probeOutput"
    /\ PlanIdle
    /\ RenderIdle
    /\ \E n \in 1..MaxEntries :
        /\ videoFilenameList \in [1..n -> BOOLEAN]
        /\ outputState \in [1..n -> {"absent", "foreign"}]
        /\ tmpLeft = [i \in 1..n |-> FALSE]
    /\ entryIndex = 1
    /\ dirLog = <<>>
    /\ run = 1
    /\ allProducedBefore = FALSE
    /\ pendingError = "none"

\* the loop of line 36 moves to the next entry, or the function returns
NextEntry ==
    IF entryIndex < Len(videoFilenameList)
    THEN entryIndex' = entryIndex + 1 /\ pc' = "probeOutput"
    ELSE entryIndex' = entryIndex /\ pc' = "dirDone"

\* lines 39-43
OutputProbed(probed) ==
    /\ pc = "probeOutput"
    /\ probed \in isVideoFile(outputState[entryIndex])
    /\ dirLog' = Append(dirLog,
           Event("visit", entryIndex, probed, "none", FilesOf(entryIndex)))
    /\ IF alreadyDone(probed)
       THEN NextEntry
       ELSE entryIndex' = entryIndex /\ pc' = "probeInput"
    /\ UNCHANGED <<planVars, renderVars, videoFilenameList, outputState, tmpLeft,
                   run, allProducedBefore, pendingError>>

\* lines 43-45
InputProbed ==
    /\ pc = "probeInput"
    /\ IF videoFilenameList[entryIndex]
       THEN /\ dirLog' = Append(dirLog,
                   Event("process", entryIndex, FALSE, "none", FilesOf(entryIndex)))
            /\ entryIndex' = entryIndex
            /\ pc' = "process"
       ELSE /\ NextEntry
            /\ UNCHANGED dirLog
    /\ UNCHANGED <<planVars, renderVars, videoFilenameList, outputState, tmpLeft,
                   run, allProducedBefore, pendingError>>

\* line 45 resolves: removeSilentFromVideoFile wrote the output and removed
\* its temp directory, or found nothing to keep and touched nothing
ProcessDone(wroteOutput) ==
    /\ pc = "process"
    /\ outputState' = IF wroteOutput
                      THEN [outputState EXCEPT ![entryIndex] = "written"]
                      ELSE outputState
    /\ tmpLeft' = IF wroteOutput THEN [tmpLeft EXCEPT ![entryIndex] = FALSE]
                                 ELSE tmpLeft
    /\ dirLog' = Append(dirLog,
           Event(IF wroteOutput THEN "written" ELSE "nothing", entryIndex, FALSE,
                 "none", <<outputState'[entryIndex], tmpLeft'[entryIndex]>>))
    /\ NextEntry
    /\ UNCHANGED <<planVars, renderVars, videoFilenameList, run,
                   allProducedBefore, pendingError>>

\* line 45 rejects: the pipeline failed during the analysis (nothing on
\* disk yet), during an extraction (the temp directory is there) or during
\* the concatenation (so is a part of the output)
Stages == {"analysis", "extract", "concat"}

ProcessFails(error, stage) ==
    /\ pc = "process"
    /\ outputState' = IF stage = "concat"
                      THEN [outputState EXCEPT ![entryIndex] = "partial"]
                      ELSE outputState
    /\ tmpLeft' = IF stage = "analysis" THEN tmpLeft
                  ELSE [tmpLeft EXCEPT ![entryIndex] = TRUE]
    /\ pendingError' = error
    /\ dirLog' = Append(dirLog,
           Event("rejected", entryIndex, FALSE, error,
                 <<outputState'[entryIndex], tmpLeft'[entryIndex]>>))
    /\ pc' = "catch"
    /\ UNCHANGED <<planVars, renderVars, videoFilenameList, entryIndex, run,
                   allProducedBefore>>

\* lines 47-54
Catch ==
    /\ pc = "catch"
    /\ IF isIgnoredError(pendingError)
       THEN /\ dirLog' = Append(dirLog,
                   Event("ignored", entryIndex, FALSE, pendingError, FilesOf(entryIndex)))
            /\ NextEntry
       ELSE /\ dirLog' = Append(dirLog,
                   Event("thrown", entryIndex, FALSE, pendingError, FilesOf(entryIndex)))
            /\ entryIndex' = entryIndex
            /\ pc' = "aborted"
    /\ UNCHANGED <<planVars, renderVars, videoFilenameList, outputState, tmpLeft,
                   run, allProducedBefore, pendingError>>

\* the tool is started again on the same directories
Rerun ==
    /\ pc = "dirDone"
    /\ run < MaxRuns
    /\ run' = run + 1
    /\ allProducedBefore' = \A i \in Entries : outputState[i] = "written"
    /\ entryIndex' = 1
    /\ dirLog' = <<>>
    /\ pendingError' = "none"
    /\ pc' = "probeOutput"
    /\ UNCHANGED <<planVars, renderVars, videoFilenameList, outputState, tmpLeft>>

NextDir ==
    \/ \E probed \in BOOLEAN : OutputProbed(probed)
    \/ InputProbed
    \/ \E wroteOutput \in BOOLEAN : ProcessDone(wroteOutput)
    \/ \E error \in ExecErrors : \E stage \in Stages : ProcessFails(error, stage)
    \/ Catch
    \/ Rerun

SpecDir == InitDir /\ [][NextDir]_vars

(***************************************************************************)
(* Claims about the directory loop, under SpecDir.                         *)
(***************************************************************************)
LogIndex == 1..Len(dirLog)

\* C8: an entry whose output path probes as valid media is not processed and
\* its output is not rewritten; a run over a directory whose outputs were
\* all produced by an earlier run processes nothing.
C8_ValidOutputSkipped ==
    /\ \A k \in LogIndex :
           dirLog[k].event # "visit" =>
               \E j \in 1..(k - 1) :
                   /\ dirLog[j].event = "visit"
                   /\ dirLog[j].entry = dirLog[k].entry
                   /\ ~dirLog[j].probed
    /\ \A k \in LogIndex :
           (dirLog[k].event = "visit" /\ dirLog[k].probed) =>
               /\ \A j \in LogIndex : j # k => dirLog[j].entry # dirLog[k].entry
               /\ FilesOf(dirLog[k].entry) = dirLog[k].files
    /\ allProducedBefore =>
           /\ \A k \in LogIndex : dirLog[k].event = "visit" /\ dirLog[k].probed
           /\ \A i \in Entries : outputState[i] = "written"

C8_Witness ==
    /\ pc = "dirDone"
    /\ run = 2
    /\ allProducedBefore
    /\ Len(videoFilenameList) = 3
    /\ Len(dirLog) = 3

VisitedEntries == {dirLog[k].entry : k \in {j \in LogIndex : dirLog[j].event = "visit"}}

\* C9: a rejection with the buffering error is logged and the loop goes on to
\* the next entry, the entry's files left as the failure left them and the
\* entry not tried again; any other rejection is thrown and ends the run
\* with no later entry visited.
C9_OnlyBufferingErrorIgnored ==
    /\ \A k \in LogIndex :
           dirLog[k].event = "rejected" =>
               /\ FilesOf(dirLog[k].entry) = dirLog[k].files
               /\ \A j \in LogIndex :
                      (j # k /\ dirLog[j].entry = dirLog[k].entry)
                          => dirLog[j].event \in {"visit", "process", "ignored", "thrown"}
               /\ IF k = Len(dirLog)
                  THEN pc = "catch"
                  ELSE /\ dirLog[k + 1].entry = dirLog[k].entry
                       /\ dirLog[k + 1].files = dirLog[k].files
                       /\ dirLog[k + 1].event =
                              IF dirLog[k].error = BufferingError THEN "ignored"
                                                                  ELSE "thrown"
    /\ \A k \in LogIndex :
           dirLog[k].event = "ignored" =>
               IF k = Len(dirLog)
               THEN IF dirLog[k].entry = Len(videoFilenameList)
                    THEN pc = "dirDone"
                    ELSE pc = "probeOutput" /\ entryIndex = dirLog[k].entry + 1
               ELSE /\ dirLog[k + 1].event = "visit"
                    /\ dirLog[k + 1].entry = dirLog[k].entry + 1
    /\ \A k \in LogIndex :
           dirLog[k].event = "thrown" => (k = Len(dirLog) /\ pc = "aborted")
    /\ \A k \in LogIndex : \A j \in LogIndex :
           (dirLog[k].event = "process" /\ dirLog[j].event = "process"
                /\ dirLog[k].entry = dirLog[j].entry) => j = k
    /\ pc = "dirDone" => VisitedEntries = Entries
    /\ pc = "aborted" =>
           /\ pendingError # BufferingError
           /\ VisitedEntries = 1..entryIndex
           /\ dirLog[Len(dirLog)].event = "thrown"

C9_Witness ==
    /\ pc = "dirDone"
    /\ Len(videoFilenameList) = 3
    /\ \E k \in LogIndex :
           /\ dirLog[k].event = "ignored"
           /\ dirLog[k].entry = 1
           /\ dirLog[k].files = <<"partial", TRUE>>
    /\ \E k \in LogIndex : dirLog[k].event = "written" /\ dirLog[k].entry = 3

=============================================================================
